---- MODULE Spec2Model ----
(***************************************************************************)
(* Model of the SQL query generator of src/main.py: the schema registry,   *)
(* the interactive loop (one query or one schema edit per step) and the    *)
(* translation engine (SQLQueryGenerator.generate_query and everything it  *)
(* calls).  Python strings are TLA+ strings, that is sequences of          *)
(* characters; every matching step works on characters as the code does.   *)
(***************************************************************************)
EXTENDS Integers, Sequences, FiniteSets, TLC

VARIABLES pc,            \* position of main() in its loop
          schema_json,   \* content of schema.json, or NoFile
          tables,        \* self.tables: sequence of [name, cols] in dict order
          user_input,    \* the line read by main()
          query_type,    \* generate_query: query_type
          table,         \* builder: table
          columns,       \* builder: columns (SELECT, INSERT)
          conditions,    \* builder: conditions (SELECT, UPDATE, DELETE)
          result,        \* value returned by generate_query
          value,         \* a value literal handed to the quoting rule
          normalized     \* the three quoting rules applied to value

vars == <<pc, schema_json, tables, user_input, query_type, table, columns,
          conditions, result, value, normalized>>

-----------------------------------------------------------------------------
(* Characters and the str methods the code uses                            *)

LowerLetters == "abcdefghijklmnopqrstuvwxyz"
UpperLetters == "ABCDEFGHIJKLMNOPQRSTUVWXYZ"
Digits == "0123456789"

CharAt(s, i) == SubSeq(s, i, i)

CharsOf(s) == {CharAt(s, i) : i \in 1..Len(s)}

UpperChars == CharsOf(UpperLetters)
DigitChars == CharsOf(Digits)

\* \w of the re module, on the characters of the model
WordChars == CharsOf(LowerLetters) \cup UpperChars \cup DigitChars \cup {"_"}

\* \s of the re module, on the characters of the model
SpaceChars == {" "}

\* the lower-case letter of every upper-case letter
LowerOf ==
    [c \in UpperChars |->
        CharAt(LowerLetters, CHOOSE i \in 1..Len(UpperLetters) : CharAt(UpperLetters, i) = c)]

LowerChar(c) == IF c \in UpperChars THEN LowerOf[c] ELSE c

RECURSIVE Lower(_)
Lower(s) == IF s = "" THEN "" ELSE LowerChar(CharAt(s, 1)) \o Lower(Tail(s))

\* p in s
Contains(s, p) == \E i \in 1..(Len(s) - Len(p) + 1) : SubSeq(s, i, i + Len(p) - 1) = p

StartsWith(s, p) == Len(s) >= Len(p) /\ SubSeq(s, 1, Len(p)) = p

EndsWith(s, p) == Len(s) >= Len(p) /\ SubSeq(s, Len(s) - Len(p) + 1, Len(s)) = p

IsDigit(s) == s # "" /\ \A i \in 1..Len(s) : CharAt(s, i) \in DigitChars

\* s[:-1]
DropLast(s) == SubSeq(s, 1, Len(s) - 1)

RECURSIVE Strip(_)
Strip(s) ==
    IF s = "" THEN ""
    ELSE IF CharAt(s, 1) \in SpaceChars THEN Strip(Tail(s))
    ELSE IF CharAt(s, Len(s)) \in SpaceChars THEN Strip(DropLast(s))
    ELSE s

\* s.find(",") + 1, for a string that holds a comma
FirstComma(s) ==
    CHOOSE k \in 1..Len(s) : CharAt(s, k) = "," /\ \A j \in 1..(k - 1) : CharAt(s, j) # ","

\* s.split(",")
RECURSIVE Split(_)
Split(s) ==
    IF ~Contains(s, ",") THEN <<s>>
    ELSE <<SubSeq(s, 1, FirstComma(s) - 1)>> \o Split(SubSeq(s, FirstComma(s) + 1, Len(s)))

\* [part.strip() for part in parts]
StripAll(parts) == [i \in 1..Len(parts) |-> Strip(parts[i])]

\* sep.join(parts)
RECURSIVE Join(_, _)
Join(sep, parts) ==
    IF parts = <<>> THEN ""
    ELSE IF Len(parts) = 1 THEN parts[1]
    ELSE parts[1] \o sep \o Join(sep, Tail(parts))

\* end of the longest run of characters of set cs that starts at position p
\* (p - 1 when the run is empty)
RECURSIVE RunEnd(_, _, _)
RunEnd(s, p, cs) ==
    IF p <= Len(s) /\ CharAt(s, p) \in cs THEN RunEnd(s, p + 1, cs) ELSE p - 1

\* the same for the characters outside cs
RECURSIVE RunEndNot(_, _, _)
RunEndNot(s, p, cs) ==
    IF p <= Len(s) /\ CharAt(s, p) \notin cs THEN RunEndNot(s, p + 1, cs) ELSE p - 1

\* the literal lit occurs in s at position p
LitAt(s, p, lit) ==
    p >= 1 /\ p + Len(lit) - 1 <= Len(s) /\ SubSeq(s, p, p + Len(lit) - 1) = lit

-----------------------------------------------------------------------------
(* __init__ and the schema registry                                        *)

select_keywords == <<"show", "display", "get", "find", "select", "retrieve", "list", "query">>
insert_keywords == <<"add", "insert", "create", "put", "include">>
update_keywords == <<"update", "modify", "change", "edit", "alter", "set">>
delete_keywords == <<"delete", "remove", "drop", "exclude", "eliminate">>

DefaultSchema ==
    << [name |-> "users",    cols |-> <<"id", "name", "email", "age", "created_at">>],
       [name |-> "products", cols |-> <<"id", "name", "price", "category", "description">>],
       [name |-> "orders",   cols |-> <<"id", "user_id", "total", "status", "order_date">>] >>

NoFile == [exists |-> FALSE, content |-> <<>>]

\* load_schema
load_schema(file) == IF file.exists THEN file.content ELSE DefaultSchema

\* self.tables.keys()
Keys(tbls) == [i \in 1..Len(tbls) |-> tbls[i].name]

\* table in self.tables
HasTable(tbls, t) == \E i \in 1..Len(tbls) : tbls[i].name = t

\* self.tables[table]
ColumnsOf(tbls, t) == tbls[CHOOSE i \in 1..Len(tbls) : tbls[i].name = t].cols

\* generator.tables[table_name] = column_list
SetTable(tbls, t, cols) ==
    IF HasTable(tbls, t)
    THEN [i \in 1..Len(tbls) |-> IF tbls[i].name = t THEN [name |-> t, cols |-> cols] ELSE tbls[i]]
    ELSE Append(tbls, [name |-> t, cols |-> cols])

-----------------------------------------------------------------------------------------------------------------------------------------------------
(* Intent classifier                                                       *)

AnyKeyword(keywords, q) == \E i \in 1..Len(keywords) : Contains(q, keywords[i])

\* identify_query_type with the INSERT keywords tested first
identify_query_type_insert_first(query) ==
    IF AnyKeyword(insert_keywords, Lower(query)) THEN "INSERT"
    ELSE IF AnyKeyword(select_keywords, Lower(query)) THEN "SELECT"
    ELSE IF AnyKeyword(update_keywords, Lower(query)) THEN "UPDATE"
    ELSE IF AnyKeyword(delete_keywords, Lower(query)) THEN "DELETE"
    ELSE "UNKNOWN"

identify_query_type(query) ==
    IF AnyKeyword(select_keywords, Lower(query)) THEN "SELECT"
    ELSE IF AnyKeyword(insert_keywords, Lower(query)) THEN "INSERT"
    ELSE IF AnyKeyword(update_keywords, Lower(query)) THEN "UPDATE"
    ELSE IF AnyKeyword(delete_keywords, Lower(query)) THEN "DELETE"
    ELSE "UNKNOWN"

-----------------------------------------------------------------------------
(* Reference resolver                                                      *)

None == [found |-> FALSE, name |-> ""]
Some(t) == [found |-> TRUE, name |-> t]

\* "not table" of Python: None and the empty string are both false
Falsy(t) == ~t.found \/ t.name = ""

\* the table test without the singular form
TableMatches_exact(t, q) == Contains(q, t)

TableMatches(t, q) == Contains(q, t) \/ Contains(q, DropLast(t))

RECURSIVE FirstTable(_, _)
FirstTable(keys, q) ==
    IF keys = <<>> THEN None
    ELSE IF TableMatches(Head(keys), q) THEN Some(Head(keys))
    ELSE FirstTable(Tail(keys), q)

identify_table(tbls, query) == FirstTable(Keys(tbls), Lower(query))

ColumnMentioned(column, query_lower) == Contains(query_lower, column)

RECURSIVE MentionedColumns(_, _)
MentionedColumns(cols, query_lower) ==
    IF cols = <<>> THEN <<>>
    ELSE (IF ColumnMentioned(Head(cols), query_lower) THEN <<Head(cols)>> ELSE <<>>)
            \o MentionedColumns(Tail(cols), query_lower)

identify_columns(tbls, query, t) ==
    IF Falsy(t) \/ ~HasTable(tbls, t.name) THEN <<>>
    ELSE MentionedColumns(ColumnsOf(tbls, t.name), Lower(query))

-----------------------------------------------------------------------------
(* Value literals: the quoting rule, written three times in the code       *)

SingleQuoted(v) == StartsWith(v, "'") /\ EndsWith(v, "'")
DoubleQuoted(v) == StartsWith(v, "\"") /\ EndsWith(v, "\"")

\* the quoting rule that looks at the opening quote only
quote_condition_value_opening_only(v) ==
    IF ~IsDigit(v) /\ ~StartsWith(v, "'")
    THEN IF ~StartsWith(v, "\"") THEN "'" \o v \o "'" ELSE v
    ELSE v

\* extract_conditions
quote_condition_value(v) ==
    IF ~IsDigit(v) /\ ~SingleQuoted(v)
    THEN IF ~DoubleQuoted(v) THEN "'" \o v \o "'" ELSE v
    ELSE v

\* generate_insert_query
format_insert_value(v) ==
    IF IsDigit(v) THEN v
    ELSE IF ~SingleQuoted(v)
         THEN IF ~DoubleQuoted(v) THEN "'" \o v \o "'" ELSE v
         ELSE v

\* generate_update_query
quote_set_value(v) ==
    IF ~IsDigit(v) /\ ~SingleQuoted(v)
    THEN IF ~DoubleQuoted(v) THEN "'" \o v \o "'" ELSE v
    ELSE v

-----------------------------------------------------------------------------
(* Regular expressions.  Every pattern of extract_conditions and the SET   *)
(* pattern have the shape                                                  *)
(*     <lead>(\w+) (?:op1|op2|...) <value>                                 *)
(* and are matched here the way the backtracking matcher of re matches     *)
(* them: greedy runs, alternatives in the written order, leftmost match    *)
(* first.  A greedy run that ends the pattern, or that is followed by a    *)
(* character outside the run, has one possible length: the longest.        *)

NoMatch == [ok |-> FALSE, vs |-> 0, ve |-> 0, end |-> 0]

\* a value found: group 2 is s[vs..ve], the match ends at end
Span(vs, ve, end) == [ok |-> TRUE, vs |-> vs, ve |-> ve, end |-> end]

\* '[^']+' (or the same with ") at position p: the position of the closing
\* quote, 0 when it does not match
QuotedEnd(s, p, quote) ==
    IF /\ LitAt(s, p, quote)
       /\ RunEndNot(s, p + 1, {quote}) >= p + 1
       /\ LitAt(s, RunEndNot(s, p + 1, {quote}) + 1, quote)
    THEN RunEndNot(s, p + 1, {quote}) + 1
    ELSE 0

\* (\w+|\d+|'[^']+'|\"[^\"]+\") at position p
AnyValueAt(s, p) ==
    IF RunEnd(s, p, WordChars) >= p
    THEN Span(p, RunEnd(s, p, WordChars), RunEnd(s, p, WordChars))
    ELSE IF RunEnd(s, p, DigitChars) >= p
    THEN Span(p, RunEnd(s, p, DigitChars), RunEnd(s, p, DigitChars))
    ELSE IF QuotedEnd(s, p, "'") # 0
    THEN Span(p, QuotedEnd(s, p, "'"), QuotedEnd(s, p, "'"))
    ELSE IF QuotedEnd(s, p, "\"") # 0
    THEN Span(p, QuotedEnd(s, p, "\""), QuotedEnd(s, p, "\""))
    ELSE NoMatch

\* (\d+) at position p
DigitsAt(s, p) ==
    IF RunEnd(s, p, DigitChars) >= p
    THEN Span(p, RunEnd(s, p, DigitChars), RunEnd(s, p, DigitChars))
    ELSE NoMatch

\* \(([^)]+)\) at position p
ListAt(s, p) ==
    IF /\ LitAt(s, p, "(")
       /\ RunEndNot(s, p + 1, {")"}) >= p + 1
       /\ LitAt(s, RunEndNot(s, p + 1, {")"}) + 1, ")")
    THEN Span(p + 1, RunEndNot(s, p + 1, {")"}), RunEndNot(s, p + 1, {")"}) + 1)
    ELSE NoMatch

ValueAt(kind, s, p) ==
    CASE kind = "value"  -> AnyValueAt(s, p)
      [] kind = "digits" -> DigitsAt(s, p)
      [] kind = "list"   -> ListAt(s, p)

where_patterns ==
    << [lead |-> "where ", ops |-> <<"is", "=", "equals", "equal to">>, val |-> "value"],
       [lead |-> "where ", ops |-> <<">", "greater than">>,             val |-> "digits"],
       [lead |-> "where ", ops |-> <<"<", "less than">>,                val |-> "digits"],
       [lead |-> "where ", ops |-> <<"like">>,                          val |-> "value"],
       [lead |-> "where ", ops |-> <<"in">>,                            val |-> "list"] >>

set_pattern == [lead |-> "set ", ops |-> <<"to">>, val |-> "value"]

NoMatchObject == [ok |-> FALSE, end |-> 0, group0 |-> "", group1 |-> "", group2 |-> ""]

\* the alternatives (?:op1|op2|...) followed by a space and the value,
\* tried in the written order from alternative k on
RECURSIVE OpValueAt(_, _, _, _)
OpValueAt(pat, s, p, k) ==
    IF k > Len(pat.ops) THEN NoMatch
    ELSE IF /\ LitAt(s, p, pat.ops[k] \o " ")
            /\ ValueAt(pat.val, s, p + Len(pat.ops[k]) + 1).ok
    THEN ValueAt(pat.val, s, p + Len(pat.ops[k]) + 1)
    ELSE OpValueAt(pat, s, p, k + 1)

\* the match object of a match from p with the column s[cs..ce] and value v
MatchObject(s, p, cs, ce, v) ==
    IF v.ok
    THEN [ok |-> TRUE, end |-> v.end,
          group0 |-> SubSeq(s, p, v.end),
          group1 |-> SubSeq(s, cs, ce),
          group2 |-> SubSeq(s, v.vs, v.ve)]
    ELSE NoMatchObject

\* the rest of the pattern after the lead, the column being s[cs..ce]
MatchColumn(pat, s, p, cs, ce) ==
    IF LitAt(s, p, pat.lead) /\ ce >= cs /\ LitAt(s, ce + 1, " ")
    THEN MatchObject(s, p, cs, ce, OpValueAt(pat, s, ce + 2, 1))
    ELSE NoMatchObject

\* a match of the pattern that starts at position p
MatchAt(pat, s, p) ==
    MatchColumn(pat, s, p, p + Len(pat.lead), RunEnd(s, p + Len(pat.lead), WordChars))

\* re.finditer(pattern, s): the non-overlapping matches, left to right, from p on
RECURSIVE FindIter(_, _, _)
FindIterStep(pat, s, p, m) ==
    IF m.ok THEN <<m>> \o FindIter(pat, s, m.end + 1) ELSE FindIter(pat, s, p + 1)

FindIter(pat, s, p) ==
    IF p > Len(s) THEN <<>> ELSE FindIterStep(pat, s, p, MatchAt(pat, s, p))

-----------------------------------------------------------------------------
(* Predicate extractor                                                     *)

\* "Determine operator": decided on the whole matched text
DetermineOperator(group0) ==
    IF Contains(group0, "greater than") \/ Contains(group0, ">") THEN ">"
    ELSE IF Contains(group0, "less than") \/ Contains(group0, "<") THEN "<"
    ELSE IF Contains(group0, "like") THEN "LIKE"
    ELSE IF Contains(group0, "in") THEN "IN"
    ELSE "="

\* the field pattern remembers which pattern produced the condition (the
\* tuple of the code does not hold it)
ConditionOf(m, k) ==
    [column |-> m.group1, operator |-> DetermineOperator(m.group0),
     value |-> quote_condition_value(m.group2), pattern |-> k]

ConditionsOfMatches(ms, k) == [i \in 1..Len(ms) |-> ConditionOf(ms[i], k)]

\* the conditions of the patterns k, k + 1, ...
RECURSIVE ConditionsFrom(_, _)
ConditionsFrom(q, k) ==
    IF k > Len(where_patterns) THEN <<>>
    ELSE ConditionsOfMatches(FindIter(where_patterns[k], q, 1), k) \o ConditionsFrom(q, k + 1)

extract_conditions(query) == ConditionsFrom(Lower(query), 1)

\* " AND ".join([f"{column} {operator} {value}" ...])
WhereClause(conds) ==
    Join(" AND ", [i \in 1..Len(conds) |->
            conds[i].column \o " " \o conds[i].operator \o " " \o conds[i].value])

\* the WHERE clause, added if there are conditions
WhereSuffix(conds) == IF conds # <<>> THEN " WHERE " \o WhereClause(conds) ELSE ""

-----------------------------------------------------------------------------
(* Statement builders.  A builder returns its frame: the locals the        *)
(* properties speak about and the returned string.                         *)

ErrNoTable  == "ERROR: Could not identify table name in the query."
ErrNoValues == "ERROR: Could not identify values to insert."
ErrNoSet    == "ERROR: Could not identify values to update."
WarnDelete  == "WARNING: This query would delete all records from the table. Please specify conditions."
SorryUnknown == "Sorry, I couldn't understand the type of query you want to create."

Frame(t, cols, conds, res) ==
    [table |-> t, columns |-> cols, conditions |-> conds, result |-> res]

\* SELECT that ends only the statements with a WHERE clause
SelectStatement_unterminated(t, cols, conds) ==
    Frame(t, cols, conds,
          "SELECT " \o (IF cols # <<>> THEN Join(", ", cols) ELSE "*") \o " FROM " \o t.name
             \o WhereSuffix(conds) \o (IF conds # <<>> THEN ";" ELSE ""))

\* generate_select_query once table, columns and conditions are known
SelectStatement(t, cols, conds) ==
    Frame(t, cols, conds,
          "SELECT " \o (IF cols # <<>> THEN Join(", ", cols) ELSE "*") \o " FROM " \o t.name
             \o WhereSuffix(conds) \o ";")

SelectFor(tbls, query, t) ==
    IF Falsy(t) THEN Frame(t, <<>>, <<>>, ErrNoTable)
    ELSE SelectStatement(t, identify_columns(tbls, query, t), extract_conditions(query))

generate_select_query(tbls, query) == SelectFor(tbls, query, identify_table(tbls, query))

\* values?\s*(?:\(|:)?\s*([^)]+)(?:\))? : the position where group 1 starts
\* when the pattern is matched from position p, 0 when it does not match.
\* Each step prefers what the greedy matcher prefers and falls back to the
\* next choice only when the rest of the pattern fails.
ValuesGroupAt(s, p) == IF p <= Len(s) /\ CharAt(s, p) # ")" THEN p ELSE 0

\* \s*([^)]+) with n characters of white space taken, then n - 1, ..., 0
RECURSIVE ValuesSpaces2(_, _, _)
ValuesSpaces2(s, p, n) ==
    IF n < 0 THEN 0
    ELSE IF ValuesGroupAt(s, p + n) # 0 THEN ValuesGroupAt(s, p + n)
    ELSE ValuesSpaces2(s, p, n - 1)

\* (?:\(|:)?\s*([^)]+)
ValuesOpening(s, p) ==
    IF /\ LitAt(s, p, "(") \/ LitAt(s, p, ":")
       /\ ValuesSpaces2(s, p + 1, RunEnd(s, p + 1, SpaceChars) - p) # 0
    THEN ValuesSpaces2(s, p + 1, RunEnd(s, p + 1, SpaceChars) - p)
    ELSE ValuesSpaces2(s, p, RunEnd(s, p, SpaceChars) - p + 1)

\* \s*(?:\(|:)?\s*([^)]+) with n characters of white space taken, then n - 1, ...
RECURSIVE ValuesSpaces1(_, _, _)
ValuesSpaces1(s, p, n) ==
    IF n < 0 THEN 0
    ELSE IF ValuesOpening(s, p + n) # 0 THEN ValuesOpening(s, p + n)
    ELSE ValuesSpaces1(s, p, n - 1)

\* s?\s*(?:\(|:)?\s*([^)]+) at position q
ValuesPlural(s, q) ==
    IF /\ LitAt(s, q, "s")
       /\ ValuesSpaces1(s, q + 1, RunEnd(s, q + 1, SpaceChars) - q) # 0
    THEN ValuesSpaces1(s, q + 1, RunEnd(s, q + 1, SpaceChars) - q)
    ELSE ValuesSpaces1(s, q, RunEnd(s, q, SpaceChars) - q + 1)

\* the whole pattern matched at position p
ValuesMatchAt(s, p) ==
    IF LitAt(s, p, "value") THEN ValuesPlural(s, p + Len("value")) ELSE 0

\* group 1 of the match whose group 1 starts at position g
ValuesGroup(s, g) == SubSeq(s, g, RunEndNot(s, g, {")"}))

\* re.search(values_pattern, s), from position p on
RECURSIVE SearchValues(_, _)
SearchValues(s, p) ==
    IF p > Len(s) THEN [ok |-> FALSE, group1 |-> ""]
    ELSE IF ValuesMatchAt(s, p) # 0
    THEN [ok |-> TRUE, group1 |-> ValuesGroup(s, ValuesMatchAt(s, p))]
    ELSE SearchValues(s, p + 1)

\* the default column list that keeps the id column
WithoutId_keeping(cols) == cols

\* [col for col in self.tables[table] if col != "id"]
RECURSIVE WithoutId(_)
WithoutId(cols) ==
    IF cols = <<>> THEN <<>>
    ELSE (IF Head(cols) # "id" THEN <<Head(cols)>> ELSE <<>>) \o WithoutId(Tail(cols))

\* "Identify which columns to use"
InsertColumns(tbls, query, t) ==
    IF identify_columns(tbls, query, t) = <<>>
    THEN WithoutId(ColumnsOf(tbls, t.name))
    ELSE identify_columns(tbls, query, t)

\* "Format values correctly"
FormatValues(values) == [i \in 1..Len(values) |-> format_insert_value(values[i])]

\* generate_insert_query once table, values and columns are known
InsertStatement(t, values, cols) ==
    Frame(t, cols, <<>>,
          "INSERT INTO " \o t.name \o " (" \o Join(", ", cols)
             \o ") VALUES (" \o Join(", ", FormatValues(values)) \o ");")

InsertFor(tbls, query, t, match) ==
    IF Falsy(t) THEN Frame(t, <<>>, <<>>, ErrNoTable)
    ELSE IF ~match.ok THEN Frame(t, <<>>, <<>>, ErrNoValues)
    ELSE InsertStatement(t, StripAll(Split(match.group1)), InsertColumns(tbls, query, t))

generate_insert_query(tbls, query) ==
    InsertFor(tbls, query, identify_table(tbls, query), SearchValues(Lower(query), 1))

\* the SET assignments of the matches of set_pattern
SetClauses(set_matches) ==
    [i \in 1..Len(set_matches) |->
        set_matches[i].group1 \o " = " \o quote_set_value(set_matches[i].group2)]

\* generate_update_query once table and assignments are known
UpdateStatement(t, set_clauses, conds) ==
    Frame(t, <<>>, conds,
          "UPDATE " \o t.name \o " SET " \o Join(", ", set_clauses) \o WhereSuffix(conds) \o ";")

UpdateFor(query, t, set_clauses) ==
    IF Falsy(t) THEN Frame(t, <<>>, <<>>, ErrNoTable)
    ELSE IF set_clauses = <<>> THEN Frame(t, <<>>, <<>>, ErrNoSet)
    ELSE UpdateStatement(t, set_clauses, extract_conditions(query))

generate_update_query(tbls, query) ==
    UpdateFor(query, identify_table(tbls, query),
              SetClauses(FindIter(set_pattern, Lower(query), 1)))

\* DELETE without the safety check
DeleteStatement_unguarded(t, conds) ==
    Frame(t, <<>>, conds, "DELETE FROM " \o t.name \o WhereSuffix(conds) \o ";")

\* generate_delete_query once table and conditions are known
DeleteStatement(t, conds) ==
    IF conds # <<>>
    THEN Frame(t, <<>>, conds, "DELETE FROM " \o t.name \o WhereSuffix(conds) \o ";")
    ELSE Frame(t, <<>>, conds, WarnDelete)

DeleteFor(query, t) ==
    IF Falsy(t) THEN Frame(t, <<>>, <<>>, ErrNoTable)
    ELSE DeleteStatement(t, extract_conditions(query))

generate_delete_query(tbls, query) == DeleteFor(query, identify_table(tbls, query))

\* the call of the builder, with the query type that selected it
Call(qtype, f) ==
    [query_type |-> qtype, table |-> f.table, columns |-> f.columns,
     conditions |-> f.conditions, result |-> f.result]

Dispatch(tbls, english_query, qtype) ==
    CASE qtype = "SELECT" -> Call(qtype, generate_select_query(tbls, english_query))
      [] qtype = "INSERT" -> Call(qtype, generate_insert_query(tbls, english_query))
      [] qtype = "UPDATE" -> Call(qtype, generate_update_query(tbls, english_query))
      [] qtype = "DELETE" -> Call(qtype, generate_delete_query(tbls, english_query))
      [] OTHER            -> Call(qtype, Frame(None, <<>>, <<>>, SorryUnknown))

generate_query(tbls, english_query) ==
    Dispatch(tbls, english_query, identify_query_type(english_query))

-----
(* Inputs                                                                  *)

MaxTables == 4       \* largest schema registry explored
MaxValueLen == 3     \* longest value literal handed to the quoting rule

Verbs == {"show", "add", "update", "delete", "Remove", "frobnicate"}

Objects == {"all users", "a product", "orders of a user", "Tags", "the thing"}

Tails ==
    {"",
     "where age > 18",
     "where name is martin",
     "where id = 5",
     "where status like 'done'",
     "where total in (1, 2)",
     "where total less than 5 where id equals 7",
     "where name is 'a>b'",
     "with values ('Widget', 9.99, 'tools', 'A widget')",
     "values: 1, bob",
     "with name values (7, \"x\")",
     "value )",
     "set name to bob where id = 3",
     "set Label to 'x' set age to 4",
     "set total to 9 with widget"}

Sentences ==
    {v \o " " \o o \o (IF t = "" THEN "" ELSE " " \o t) :
        v \in Verbs, o \in Objects, t \in Tails}

Commands == {"exit", "Schema"}

\* answers to "Would you like to update the schema?"
UpdateAnswers == {"YES", "no"}

TableNameInputs == {"Tags", "t;", ""}

ColumnInputs == {"id, Label", "name"}

\* a schema.json left behind by an earlier run
SavedSchema ==
    << [name |-> "orders", cols |-> <<"id", "user_id", "total", "status", "order_date">>],
       [name |-> "users",  cols |-> <<"id", "name", "email", "age", "created_at">>],
       [name |-> "Tags",   cols |-> <<"id", "Label">>] >>

SchemaFiles == {NoFile, [exists |-> TRUE, content |-> SavedSchema]}

-----------------------------------------------------------------------------
(* main(): the loop.  user_input and the frame variables hold the line and *)
(* the generate_query call of the current iteration; they are empty at the *)
(* top of the loop, where the next input() overwrites them.                *)

NoCall == [query_type |-> "", table |-> None, columns |-> <<>>,
           conditions |-> <<>>, result |-> ""]

NotApplied == [condition |-> "", insert |-> "", update |-> ""]

FrameIs(f) ==
    /\ query_type = f.query_type
    /\ table = f.table
    /\ columns = f.columns
    /\ conditions = f.conditions
    /\ result = f.result

Init ==
    /\ pc = "input"
    /\ schema_json \in SchemaFiles
    /\ tables = load_schema(schema_json)
    /\ user_input = ""
    /\ FrameIs(NoCall)
    /\ value = ""
    /\ normalized = NotApplied

\* user_input = input("> ")
ReadInput ==
    /\ pc = "input"
    /\ user_input' \in Sentences \cup Commands
    /\ pc' = "dispatch"
    /\ UNCHANGED <<schema_json, tables, query_type, table, columns, conditions,
                   result, value, normalized>>

\* 'exit'
Exit ==
    /\ pc = "dispatch"
    /\ Lower(user_input) = "exit"
    /\ pc' = "done"
    /\ UNCHANGED <<schema_json, tables, user_input, query_type, table, columns,
                   conditions, result, value, normalized>>

\* column_list = [col.strip() for col in columns.split(",")]
\* generator.tables[table_name] = column_list ; generator.save_schema()
UpdateSchema(table_name, cols) ==
    /\ HasTable(tables, table_name) \/ Len(tables) < MaxTables
    /\ tables' = SetTable(tables, table_name, StripAll(Split(cols)))
    /\ schema_json' = [exists |-> TRUE, content |-> tables']

\* 'schema': show the schema and, on "yes", set one table and save
SchemaCommand ==
    /\ pc = "dispatch"
    /\ Lower(user_input) # "exit"
    /\ Lower(user_input) = "schema"
    /\ \E update \in UpdateAnswers, table_name \in TableNameInputs, cols \in ColumnInputs :
          IF Lower(update) = "yes"
          THEN UpdateSchema(table_name, cols)
          ELSE UNCHANGED <<tables, schema_json>>
    /\ pc' = "input"
    /\ user_input' = ""
    /\ UNCHANGED <<query_type, table, columns, conditions, result, value, normalized>>

\* the frame variables take the call f
Returns(f) ==
    /\ query_type' = f.query_type
    /\ table' = f.table
    /\ columns' = f.columns
    /\ conditions' = f.conditions
    /\ result' = f.result

\* result = generator.generate_query(user_input)
Translate ==
    /\ pc = "dispatch"
    /\ Lower(user_input) # "exit"
    /\ Lower(user_input) # "schema"
    /\ Returns(generate_query(tables, user_input))
    /\ pc' = "print"
    /\ UNCHANGED <<schema_json, tables, user_input, value, normalized>>

\* print(result), and back to the top of the loop
PrintResult ==
    /\ pc = "print"
    /\ pc' = "input"
    /\ Returns(NoCall)
    /\ user_input' = ""
    /\ UNCHANGED <<schema_json, tables, value, normalized>>

Next == ReadInput \/ Exit \/ SchemaCommand \/ Translate \/ PrintResult

Spec == Init /\ [][Next]_vars

-----------------------------------------------------------------------------
(* The quoting rule on its own: every value literal up to MaxValueLen      *)
(* characters is handed to the three copies of the rule.                   *)

ValueAlphabet == {"a", "7", "'", "\""}

\* the strings of a set, each also extended by one character
Extended(strings) == strings \cup {s \o c : s \in strings, c \in ValueAlphabet}

RECURSIVE StringsUpTo(_)
StringsUpTo(n) == IF n = 0 THEN {""} ELSE Extended(StringsUpTo(n - 1))

ValueInputs == StringsUpTo(MaxValueLen)

NormalizeInit ==
    /\ pc = "value"
    /\ schema_json = NoFile
    /\ tables = load_schema(schema_json)
    /\ user_input = ""
    /\ FrameIs(NoCall)
    /\ value \in ValueInputs
    /\ normalized = NotApplied

Normalize ==
    /\ pc = "value"
    /\ normalized' = [condition |-> quote_condition_value(value),
                      insert    |-> format_insert_value(value),
                      update    |-> quote_set_value(value)]
    /\ pc' = "normalized"
    /\ UNCHANGED <<schema_json, tables, user_input, query_type, table, columns,
                   conditions, result, value>>

NormalizeNext == Normalize

SpecNormalize == NormalizeInit /\ [][NormalizeNext]_vars

-----------------------------------------------------------------------------
(* Properties                                                              *)

\* generate_query has returned in the current iteration
Called == pc = "print"

StatementKinds == {"SELECT", "INSERT", "UPDATE", "DELETE"}

Sentinels == {ErrNoTable, ErrNoValues, ErrNoSet, WarnDelete, SorryUnknown}

\* C1: a DELETE request on a resolved table with no predicate returns the
\* WARNING sentinel, which holds no "DELETE FROM"; a result that begins with
\* "DELETE FROM" carries at least one predicate in a WHERE clause.
C1_NoUnguardedDelete ==
    Called =>
        /\ (query_type = "DELETE" /\ ~Falsy(table) /\ extract_conditions(user_input) = <<>>)
              => (result = WarnDelete /\ ~Contains(result, "DELETE FROM"))
        /\ StartsWith(result, "DELETE FROM")
              => (conditions # <<>> /\ Contains(result, " WHERE "))

C1_Witness ==
    /\ Called
    /\ query_type = "DELETE"
    /\ ~Falsy(table)
    /\ conditions = <<>>
    /\ result = WarnDelete

IsStatement(r) ==
    /\ \/ StartsWith(r, "SELECT ")
       \/ StartsWith(r, "INSERT INTO ")
       \/ StartsWith(r, "UPDATE ")
       \/ StartsWith(r, "DELETE FROM ")
    /\ EndsWith(r, ";")

\* C2 as stated: the result is one of the five sentinels or else a statement
\* that ends with exactly one semicolon, never both.
C2_SentinelOrStatement ==
    Called =>
        /\ (result \in Sentinels) # IsStatement(result)
        /\ IsStatement(result) => ~EndsWith(result, ";;")

\* C2 as amended: the result is one of the five sentinels or else a statement
\* that ends with a semicolon, never both; the semicolon is a single one
\* whenever the name of the resolved table does not itself end with one.
C2_SentinelOrStatementAmended ==
    Called =>
        /\ (result \in Sentinels) # IsStatement(result)
        /\ (IsStatement(result) /\ ~EndsWith(table.name, ";")) => ~EndsWith(result, ";;")

C2_Witness ==
    /\ Called
    /\ IsStatement(result)
    /\ ~EndsWith(table.name, ";")
    /\ conditions = <<>>
    /\ query_type = "SELECT"

KindOrder == <<"SELECT", "INSERT", "UPDATE", "DELETE">>

KeywordSets == <<select_keywords, insert_keywords, update_keywords, delete_keywords>>

\* some keyword of the k-th set is a substring of the lower-cased sentence
SetMatches(k, lowered) ==
    \E i \in 1..Len(KeywordSets[k]) : Contains(lowered, KeywordSets[k][i])

\* the precedence rule for intent qtype and a lower-cased sentence
Precedence(qtype, lowered) ==
    /\ \A k \in 1..4 :
          (SetMatches(k, lowered) /\ \A j \in 1..(k - 1) : ~SetMatches(j, lowered))
              => qtype = KindOrder[k]
    /\ (qtype = "UNKNOWN") <=> (\A k \in 1..4 : ~SetMatches(k, lowered))
    /\ SetMatches(2, lowered)
          => qtype = (IF SetMatches(1, lowered) THEN "SELECT" ELSE "INSERT")

\* C3: the intent is the first of SELECT, INSERT, UPDATE, DELETE whose
\* keyword set has a member in the sentence, UNKNOWN exactly when no set has
\* one; with an INSERT keyword present it is SELECT if a SELECT keyword is
\* present too, else INSERT.
C3_KeywordPrecedence == Called => Precedence(query_type, Lower(user_input))

\* a SELECT keyword, an INSERT keyword, and an UPDATE or DELETE keyword
AllKindsPresent(lowered) ==
    /\ SetMatches(1, lowered)
    /\ SetMatches(2, lowered)
    /\ SetMatches(3, lowered) \/ SetMatches(4, lowered)

C3_Witness ==
    /\ Called
    /\ AllKindsPresent(Lower(user_input))
    /\ query_type = "SELECT"

\* C4: with the default schema "show all users where age > 18" yields
\* "SELECT * FROM users WHERE age > 18;".
C4_ShowAllUsers ==
    (Called /\ tables = DefaultSchema /\ user_input = "show all users where age > 18")
        => result = "SELECT * FROM users WHERE age > 18;"

WidgetSentence == "add a product with values ('Widget', 9.99, 'tools', 'A widget')"

\* C5: with the default schema the Widget sentence yields an INSERT INTO
\* products with the columns name, price, category, description and the four
\* given values in order, 9.99 unquoted and the other three quoted.
C5_AddProduct ==
    (Called /\ tables = DefaultSchema /\ user_input = WidgetSentence)
        => /\ query_type = "INSERT"
           /\ StartsWith(result, "INSERT INTO products (name, price, category, description) VALUES (")
           /\ EndsWith(Lower(result), " VALUES ('widget', 9.99, 'tools', 'a widget');")

Applied == pc = "normalized"

Wrapped(v) == "'" \o v \o "'"

\* C6: each copy of the quoting rule is idempotent, returns a single-quoted
\* value and a value of digits unchanged, and wraps every other value that is
\* not quoted in single quotes once.
C6_QuotingIdempotent ==
    Applied =>
        /\ quote_condition_value(normalized.condition) = normalized.condition
        /\ format_insert_value(normalized.insert) = normalized.insert
        /\ quote_set_value(normalized.update) = normalized.update
        /\ \A n \in {normalized.condition, normalized.insert, normalized.update} :
              /\ SingleQuoted(value) => n = value
              /\ IsDigit(value) => n = value
              /\ (~IsDigit(value) /\ ~SingleQuoted(value) /\ ~DoubleQuoted(value))
                    => n = Wrapped(value)

C6_Witness ==
    /\ Applied
    /\ ~IsDigit(value) /\ ~SingleQuoted(value) /\ ~DoubleQuoted(value)
    /\ StartsWith(value, "'")
    /\ normalized.condition = Wrapped(value)

\* the columns of the resolved table that occur in the lower-cased sentence
Mentioned == SelectSeq(ColumnsOf(tables, table.name),
                       LAMBDA c : Contains(Lower(user_input), c))

\* C7: an INSERT with a resolved table and a values phrase lists the schema
\* columns of the table, in schema order, without the columns named "id"
\* when the sentence mentions no column, and the mentioned columns otherwise.
C7_InsertColumnDefault ==
    (Called /\ query_type = "INSERT" /\ ~Falsy(table) /\ result # ErrNoValues) =>
        /\ columns = (IF Mentioned = <<>>
                      THEN SelectSeq(ColumnsOf(tables, table.name), LAMBDA c : c # "id")
                      ELSE Mentioned)
        /\ StartsWith(result, "INSERT INTO " \o table.name \o " (" \o Join(", ", columns) \o ") VALUES (")

C7_Witness ==
    /\ Called
    /\ query_type = "INSERT"
    /\ StartsWith(result, "INSERT INTO ")
    /\ Mentioned = <<>>
    /\ \E i \in 1..Len(ColumnsOf(tables, table.name)) : ColumnsOf(tables, table.name)[i] = "id"
    /\ columns # <<>>

\* the k-th table of the registry passes the test of resolve_table
Resolvable(k) ==
    \/ Contains(Lower(user_input), tables[k].name)
    \/ Contains(Lower(user_input), DropLast(tables[k].name))

\* C8: the resolved table is the first table of the registry whose name, or
\* whose name without its last character, is in the lower-cased sentence,
\* none exactly when there is no such table; with none every builder returns
\* the table error.
C8_FirstTableWins ==
    (Called /\ query_type \in StatementKinds) =>
        /\ table.found <=> \E k \in 1..Len(tables) : Resolvable(k)
        /\ \A k \in 1..Len(tables) :
              (Resolvable(k) /\ \A j \in 1..(k - 1) : ~Resolvable(j)) => table = Some(tables[k].name)
        /\ ~table.found => result = ErrNoTable

C8_Witness ==
    /\ Called
    /\ query_type \in StatementKinds
    /\ \E k \in 1..Len(tables) : \E j \in 1..(k - 1) :
          /\ Resolvable(k)
          /\ Resolvable(j)
          /\ table = Some(tables[j].name)
          /\ \A i \in 1..(j - 1) : ~Resolvable(i)

\* C9: a predicate from a match of pattern 1 never has the operator LIKE or
\* IN; it has "=" unless the matched text holds a greater-than or less-than.
C9_Pattern1Operator ==
    Called =>
        \A i \in 1..Len(conditions) :
            conditions[i].pattern = 1 => conditions[i].operator \in {"=", ">", "<"}

\* C10: a table whose stored name is, ignoring letter case, a substring of
\* the sentence is resolved, and a column of the resolved table whose stored
\* name is, ignoring case, a substring of the sentence is among the columns
\* of a SELECT.
C10_CaseInsensitiveNames ==
    (Called /\ query_type \in StatementKinds) =>
        /\ (\E k \in 1..Len(tables) : Contains(Lower(user_input), Lower(tables[k].name)))
              => table.found
        /\ (query_type = "SELECT" /\ ~Falsy(table)) =>
              \A i \in 1..Len(ColumnsOf(tables, table.name)) :
                  Contains(Lower(user_input), Lower(ColumnsOf(tables, table.name)[i]))
                      => \E j \in 1..Len(columns) : columns[j] = ColumnsOf(tables, table.name)[i]

====
